---- MODULE Spec2Model ----
(***************************************************************************)
(* A model of src/src/App.tsx (first module of the file, lines 1-1475):    *)
(* the page router (App / Navbar), the CountdownSection with its timer and *)
(* its useIntersectionObserver tracker, the ParticleBackground canvas      *)
(* animation and the form of RsvpPage.  A render and the effects it        *)
(* schedules are one step.  The canvas is assumed to give a 2d context     *)
(* (lines 172-176 do not return).                                          *)
(*                                                                         *)
(* Conventions                                                             *)
(*  - Times are milliseconds counted from an origin shortly before the     *)
(*    wedding date, so that every value fits TLC's integers.               *)
(*  - Strings produced by String(n).padStart(2,'0') are sequences of       *)
(*    decimal digits: "07" is <<0,7>>.                                     *)
(*  - Canvas coordinates, sizes and speeds are counted in quarters of a    *)
(*    pixel and Math.random() returns k/4 for a k drawn from a small set,  *)
(*    so that positions and speeds are exact integers.  Arithmetic is      *)
(*    exact: the rounding of floating-point numbers is not modelled.       *)
(*  - Visible fractions of an element are counted in tenths.               *)
(***************************************************************************)
EXTENDS Integers, Sequences, FiniteSets, TLC

(***************************************************************************)
(* Bounds of the model                                                     *)
(***************************************************************************)
\* number of times the clock is advanced
MaxAdvances == 2
\* number of observer identities that can be alive at once
MaxObservers == 2
\* number of entries the platform queues for one observer before delivery
MaxEntries == 1
\* number of deferred scrolls pending at once
MaxTimers == 1
\* number of times the home view is mounted
MaxMounts == 2
\* number of animation frames run
MaxFrames == 3
\* number of RSVP requests in flight at once
MaxRequests == 2

(***************************************************************************)
(* Program constants                                                       *)
(***************************************************************************)
\* new Date('January 31, 2026 00:00:00').getTime(), relative to the origin
weddingDate == 200000000
\* 1000 * 60 * 60 * 24, 1000 * 60 * 60, 1000 * 60, 1000
MsPerDay == 86400000
MsPerHour == 3600000
MsPerMinute == 60000
MsPerSecond == 1000
\* { threshold: 0.5 } of the countdown section, in tenths
CountdownThreshold == 5
\* (canvas.width * canvas.height) / 9000
Density == 9000

(***************************************************************************)
(* Inputs                                                                  *)
(***************************************************************************)
\* distance to the wedding date when the page is loaded
StartDistances ==
    {-5000, 0, 999, 1000, 59999, 3599999, 86399999, 86400000, 90062000}
\* amounts by which the wall clock moves between two observations of it
\* (a negative amount is a clock adjustment)
ClockSteps == {1000, 1017, 61000, -4000}
\* visible fractions of the tracked element, in tenths: partly visible below
\* the threshold of 0.5 (reported as intersecting or not, see
\* IsIntersectingOf) and fully visible
Ratios == {3, 10}
\* anchors exercised by the navigation links
AnchorIds == {"home", "prenup-gallery", "location", "dresscode", "rsvp"}

(***************************************************************************)
(* String(n) and padStart                                                  *)
(***************************************************************************)
RECURSIVE NumToString(_)
NumToString(n) == IF n < 10 THEN <<n>> ELSE NumToString(n \div 10) \o <<n % 10>>

RECURSIVE PadStart(_, _, _)
PadStart(s, len, c) == IF Len(s) >= len THEN s ELSE PadStart(<<c>> \o s, len, c)

\* the number a digit string denotes (used to read the display back)
RECURSIVE ParseInt(_)
ParseInt(s) == IF s = <<>> THEN 0
               ELSE 10 * ParseInt(SubSeq(s, 1, Len(s) - 1)) + s[Len(s)]

\* useState({ days: '00', hours: '00', minutes: '00', seconds: '00' })
ZeroTimeLeft == [days |-> <<0, 0>>, hours |-> <<0, 0>>,
                 minutes |-> <<0, 0>>, seconds |-> <<0, 0>>]

(***************************************************************************)
(* The decomposition of a non-negative distance (lines 502-505).           *)
(* Math.floor(a / b) is a \div b and a % b is the TLA+ remainder for the   *)
(* non-negative a of this branch.                                          *)
(***************************************************************************)
DaysOf(distance) == distance \div MsPerDay
\* a plausible slip: the days are not taken out of the hours
HoursOfNoMod(distance) == distance \div MsPerHour

HoursOf(distance) == (distance % MsPerDay) \div MsPerHour
MinutesOf(distance) == (distance % MsPerHour) \div MsPerMinute
SecondsOf(distance) == (distance % MsPerMinute) \div MsPerSecond

\* the object passed to setTimeLeft by one tick of the interval
TimeLeftAt(clock) ==
    LET distance == weddingDate - clock IN
    IF distance < 0 THEN ZeroTimeLeft
    ELSE [days |-> PadStart(NumToString(DaysOf(distance)), 2, 0),
          hours |-> PadStart(NumToString(HoursOf(distance)), 2, 0),
          minutes |-> PadStart(NumToString(MinutesOf(distance)), 2, 0),
          seconds |-> PadStart(NumToString(SecondsOf(distance)), 2, 0)]

(***************************************************************************)
(* State                                                                   *)
(***************************************************************************)
VARIABLES
    \* App and Navbar
    currentPage,    \* useState('home') of App
    isOpen,         \* useState(false) of Navbar: the mobile menu
    scrollTimers,   \* the setTimeout callbacks not yet run, oldest first
    scrolledTo,     \* the element last scrolled into view, "none" before any
    mounts,         \* number of times HomePage has been mounted
    \* the wall clock
    now,            \* new Date().getTime()
    advances,       \* number of times the clock has moved
    clockBack,      \* the clock has been set back since the countdown mounted
    \* CountdownSection
    timerActive,    \* the interval of the mounted countdown is scheduled
    timeLeft,       \* useState of CountdownSection
    lastDistance,   \* <<distance>> of the last tick of this mount, <<>> before any
    \* useIntersectionObserver of the countdown section
    isInView,       \* useState(false) of the hook
    observer,       \* the observer made by the last run of the effect, 0 if none
    registered,     \* the observers that observe the element
    reported,       \* per observer, the visibility class last reported to it
    entries,        \* per observer, the entries queued and not yet delivered
    liveObs,        \* the observers whose callback closes over the mounted hook
    ratio,          \* the visible fraction of the element, in tenths
    lateCallback,   \* a callback has run in this mount after the flag was set
    \* ParticleBackground
    winW, winH,     \* window.innerWidth, window.innerHeight
    fields,         \* every ParticleBackground effect run so far, oldest first
    frames,         \* number of animation frames run
    frameLog,       \* the canvas operations of the last run of animate
    lastOp,         \* what the canvas effect did last: mount, unmount, resize, frame
    \* RsvpPage
    name,           \* useState('')
    contact,        \* useState('')
    isAttending,    \* useState(true)
    guests,         \* useState(1)
    message,        \* useState('')
    submissionStatus,   \* useState('idle')
    inFlight,       \* the calls of fetch that have not settled, oldest first
    uncaught,       \* an exception has left handleSubmit
    \* PrenupGallery and the document
    selectedImage,  \* useState(null): the image of the lightbox, NoImage for null
    bodyOverflow,   \* document.body.style.overflow
    \* LocationSlider
    activeIndex     \* useState(0)

navVars == <<currentPage, isOpen, scrollTimers, scrolledTo, mounts>>
clockVars == <<now, advances, clockBack>>
countdownVars == <<timerActive, timeLeft, lastDistance>>
trackerVars == <<isInView, observer, registered, reported, entries, liveObs,
                 lateCallback>>
particleVars == <<winW, winH, fields, frames, frameLog, lastOp>>
rsvpVars == <<name, contact, isAttending, guests, message, submissionStatus,
              inFlight, uncaught>>
sectionVars == <<selectedImage, bodyOverflow, activeIndex>>
vars == <<navVars, clockVars, countdownVars, trackerVars, ratio, particleVars,
          rsvpVars, sectionVars>>

Observers == 1 .. MaxObservers

\* HomePage is rendered unless the page is 'entourage' (renderPage)
HomeMounted == currentPage # "entourage"

(***************************************************************************)
(* useIntersectionObserver (lines 11-41).  The state of one use of the     *)
(* hook is handled as a record T with the fields of trackerVars.           *)
(***************************************************************************)
Tracker ==
    [isInView |-> isInView, observer |-> observer, registered |-> registered,
     reported |-> reported, entries |-> entries, liveObs |-> liveObs,
     lateCallback |-> lateCallback]

\* the visibility class of a fraction r for a threshold t: not intersecting,
\* intersecting below the threshold, at or above the threshold
ClassOf(r, t) == IF r = 0 THEN 0 ELSE IF r < t THEN 1 ELSE 2

\* entry.isIntersecting for a fraction r and a threshold t.  Below the threshold
\* it depends on the engine: the intersection algorithm of the standard reports
\* any overlap, other engines report only a crossed threshold.
IsIntersectingOf(r, t) ==
    IF r = 0 THEN {FALSE} ELSE IF r >= t THEN {TRUE} ELSE BOOLEAN

\* observer.unobserve(element): the registration is removed, the entries
\* already queued for the observer stay queued
Unobserve(T, o) ==
    [T EXCEPT !.registered = @ \ {o}, !.reported[o] = -1]

\* observer identities that are neither observing nor owed a delivery
FreeObservers(T) ==
    {o \in Observers : o \notin T.registered /\ T.entries[o] = <<>>}

\* a plausible slip: the effect returns no cleanup
CleanupEffectNone(T) == T

\* the cleanup returned by the effect (lines 31-36)
CleanupEffect(T) ==
    IF T.observer # 0 THEN Unobserve(T, T.observer) ELSE T

CanRunEffect(T) == FreeObservers(CleanupEffect(T)) # {}

\* a plausible slip: the effect runs again without the cleanup of the
\* previous run
RunEffectNoCleanup(T) ==
    LET n == CHOOSE o \in FreeObservers(T) : \A q \in FreeObservers(T) : o <= q
    IN  [T EXCEPT !.observer = n,
                  !.registered = @ \cup {n},
                  !.liveObs = @ \cup {n}]

\* a run of the effect (lines 15-29) after the cleanup of the previous run:
\* a new observer is made and observes the element
RunEffect(T) ==
    LET C == CleanupEffect(T)
        n == CHOOSE o \in FreeObservers(C) : \A q \in FreeObservers(C) : o <= q
    IN  [C EXCEPT !.observer = n,
                  !.registered = @ \cup {n},
                  !.liveObs = @ \cup {n}]

\* setIsInView(v) called from the callback of observer o: it reaches the
\* state of the hook only while the component that made o is mounted
SetIsInView(T, o, v) ==
    IF o \in T.liveObs THEN [T EXCEPT !.isInView = v] ELSE T

\* a plausible slip: the flag follows every entry
ObserverCallbackFollow(T, o, isIntersecting) ==
    SetIsInView(T, o, isIntersecting)

\* the observer callback (lines 17-24); isIntersecting is that of the first entry
ObserverCallback(T, o, isIntersecting) ==
    IF isIntersecting
    THEN Unobserve(SetIsInView(T, o, TRUE), o)
    ELSE T

\* identities that no longer matter are forgotten
Retire(T) ==
    [T EXCEPT !.liveObs = {o \in @ : o \in T.registered \/ T.entries[o] # <<>>}]

\* the hook's part of mounting the component: useState(false), first effect run
MountTracker(T) ==
    Retire(RunEffect([T EXCEPT !.isInView = FALSE, !.observer = 0,
                               !.liveObs = {}, !.lateCallback = FALSE]))

\* the hook's part of unmounting: the cleanup runs and the state is gone
UnmountTracker(T) ==
    Retire([CleanupEffect(T) EXCEPT !.isInView = FALSE, !.observer = 0,
                                    !.liveObs = {}, !.lateCallback = FALSE])

\* the delivery of the entries queued for observer o, then the render that a
\* change of the flag causes, which runs the effect again ([options] is a new
\* object at every render)
CallbackOf(T, o) ==
    ObserverCallback([T EXCEPT !.entries[o] = <<>>,
                               !.lateCallback = @ \/ (o \in T.liveObs /\ T.isInView)],
                     o, Head(T.entries[o]).isIntersecting)

DeliverTo(T, o) ==
    LET T2 == CallbackOf(T, o)
    IN  Retire(IF T2.isInView # T.isInView THEN RunEffect(T2) ELSE T2)

SetTracker(T) ==
    /\ isInView' = T.isInView
    /\ observer' = T.observer
    /\ registered' = T.registered
    /\ reported' = T.reported
    /\ entries' = T.entries
    /\ liveObs' = T.liveObs
    /\ lateCallback' = T.lateCallback

(***************************************************************************)
(* CountdownSection (lines 479-516).  The state of the component is        *)
(* handled as a record C with the fields of countdownVars.                 *)
(***************************************************************************)
Countdown ==
    [timerActive |-> timerActive, timeLeft |-> timeLeft,
     lastDistance |-> lastDistance]

\* a plausible slip: the interval is not cleared when the date has passed
TickHandlerNoClear(C, clock) ==
    [C EXCEPT !.timeLeft = TimeLeftAt(clock),
              !.lastDistance = <<weddingDate - clock>>]

\* the callback of setInterval (lines 492-513)
TickHandler(C, clock) ==
    LET distance == weddingDate - clock IN
    IF distance < 0
    THEN [C EXCEPT !.timerActive = FALSE,
                   !.timeLeft = ZeroTimeLeft,
                   !.lastDistance = <<distance>>]
    ELSE [C EXCEPT !.timeLeft = TimeLeftAt(clock),
                   !.lastDistance = <<distance>>]

\* mounting: useState of line 482 and the effect of line 491
MountCountdown ==
    [timerActive |-> TRUE, timeLeft |-> ZeroTimeLeft, lastDistance |-> <<>>]

\* a plausible slip: the effect returns no cleanup
UnmountCountdownNoClear ==
    [timerActive |-> TRUE, timeLeft |-> ZeroTimeLeft, lastDistance |-> <<>>]

\* unmounting: the cleanup of line 515; the state is gone
UnmountCountdown ==
    [timerActive |-> FALSE, timeLeft |-> ZeroTimeLeft, lastDistance |-> <<>>]

SetCountdown(C) ==
    /\ timerActive' = C.timerActive
    /\ timeLeft' = C.timeLeft
    /\ lastDistance' = C.lastDistance

(***************************************************************************)
(* ParticleBackground (lines 167-257).  One run of its effect is a record  *)
(* F: the canvas size in pixels, the particles, whether its resize         *)
(* listener is registered and whether a frame callback is requested.       *)
(* Coordinates, sizes and speeds are in quarters of a pixel.               *)
(***************************************************************************)
\* values k of Math.random() = k/4
Rand == {0, 3}
RandSize == {1}
\* the five draws of one Particle constructor
Draws == [x : Rand, y : Rand, size : RandSize, sx : Rand, sy : Rand]
\* window sizes, in pixels
WinSizes == {<<0, 0>>, <<1, 1>>, <<9000, 1>>, <<9001, 1>>}

\* a plausible slip: the position is drawn like the speed, around 0
NewParticleAroundZero(w, h, d) ==
    [x |-> 3 * d.x - 6, y |-> 3 * d.y - 6, size |-> 5 * d.size + 4,
     speedX |-> 3 * d.sx - 6, speedY |-> 3 * d.sy - 6, born |-> <<w, h>>]

\* the constructor of Particle (lines 189-198) on a canvas of w by h pixels;
\* born records the size of the canvas the particle was made for
NewParticle(w, h, d) ==
    [x |-> d.x * w, y |-> d.y * h, size |-> 5 * d.size + 4,
     speedX |-> 3 * d.sx - 6, speedY |-> 3 * d.sy - 6, born |-> <<w, h>>]

\* a plausible slip: the position is clamped when the wall is hit
UpdateClamp(p, w, h) ==
    LET nx == p.x + p.speedX
        ny == p.y + p.speedY
    IN  [p EXCEPT !.x = IF nx > 4 * w THEN 4 * w ELSE IF nx < 0 THEN 0 ELSE nx,
                  !.y = IF ny > 4 * h THEN 4 * h ELSE IF ny < 0 THEN 0 ELSE ny,
                  !.speedX = IF nx > 4 * w \/ nx < 0 THEN -p.speedX ELSE p.speedX,
                  !.speedY = IF ny > 4 * h \/ ny < 0 THEN -p.speedY ELSE p.speedY]

\* a plausible slip: the walls at 0 are forgotten
UpdateNoLowerWall(p, w, h) ==
    LET nx == p.x + p.speedX
        ny == p.y + p.speedY
    IN  [p EXCEPT !.x = nx,
                  !.y = ny,
                  !.speedX = IF nx > 4 * w THEN -p.speedX ELSE p.speedX,
                  !.speedY = IF ny > 4 * h THEN -p.speedY ELSE p.speedY]

\* Particle.update (lines 201-206) on a canvas of w by h pixels
Update(p, w, h) ==
    LET nx == p.x + p.speedX
        ny == p.y + p.speedY
    IN  [p EXCEPT !.x = nx,
                  !.y = ny,
                  !.speedX = IF nx > 4 * w \/ nx < 0 THEN -p.speedX ELSE p.speedX,
                  !.speedY = IF ny > 4 * h \/ ny < 0 THEN -p.speedY ELSE p.speedY]

\* a plausible slip: the count is rounded down
RECURSIVE LoopCountFloor(_, _)
LoopCountFloor(i, area) ==
    IF (i + 1) * Density <= area THEN 1 + LoopCountFloor(i + 1, area) ELSE 0

\* the number of iterations of the loop of init (lines 222-225) from index i:
\* i < (canvas.width * canvas.height) / 9000
RECURSIVE LoopCount(_, _)
LoopCount(i, area) ==
    IF i * Density < area THEN 1 + LoopCount(i + 1, area) ELSE 0

\* the draws needed by init on a canvas of w by h pixels, each taken from D
DrawsFor(w, h, D) == [1 .. LoopCount(0, w * h) -> D]

\* init (lines 220-226)
InitParticles(w, h, draws) ==
    [i \in 1 .. LoopCount(0, w * h) |-> NewParticle(w, h, draws[i])]

\* a plausible slip: init does not empty the collection
HandleResizeAppend(F, w, h, draws) ==
    [F EXCEPT !.w = w, !.h = h,
              !.particles = @ \o InitParticles(w, h, draws)]

\* handleResize (lines 239-243)
HandleResize(F, w, h, draws) ==
    [F EXCEPT !.w = w, !.h = h, !.particles = InitParticles(w, h, draws)]

\* a plausible slip: two passes, every update then every draw
RECURSIVE DrawLog(_, _)
DrawLog(i, n) ==
    IF i > n THEN <<>> ELSE <<[op |-> "draw", p |-> i]>> \o DrawLog(i + 1, n)
RECURSIVE UpdateLog(_, _)
UpdateLog(i, n) ==
    IF i > n THEN DrawLog(1, n)
    ELSE <<[op |-> "update", p |-> i]>> \o UpdateLog(i + 1, n)

\* the canvas operations of particles.forEach (lines 231-234) from particle i
RECURSIVE ForEachLog(_, _)
ForEachLog(i, n) ==
    IF i > n THEN <<>>
    ELSE <<[op |-> "update", p |-> i], [op |-> "draw", p |-> i]>>
         \o ForEachLog(i + 1, n)

\* the operations of one run of animate (lines 229-236), in order
AnimateLog(F) ==
    <<[op |-> "clear", p |-> 0]>> \o ForEachLog(1, Len(F.particles))
    \o <<[op |-> "requestAnimationFrame", p |-> 0]>>

\* animate (lines 229-236): every particle is moved and the next frame requested
Animate(F) ==
    [F EXCEPT !.particles = [i \in 1 .. Len(F.particles) |->
                                Update(F.particles[i], F.w, F.h)],
              !.raf = TRUE]

\* the effect of ParticleBackground (lines 170-247): handleResize(), the
\* listener, the first call of animate
MountField(w, h, draws) ==
    Animate(HandleResize([w |-> 0, h |-> 0, particles |-> <<>>,
                          listening |-> TRUE, raf |-> FALSE], w, h, draws))

\* a plausible slip: the effect returns no cleanup
UnmountFieldNoCleanup(F) == F

\* the cleanup of the effect (lines 250-252)
UnmountField(F) == [F EXCEPT !.listening = FALSE]

\* the ParticleBackground that is mounted is the last of fields
FieldMounted(i) == HomeMounted /\ i = Len(fields)

(***************************************************************************)
(* RsvpPage (lines 1301-1468).  The state of the component and the calls   *)
(* of fetch it has made are handled as a record R with the fields of       *)
(* rsvpVars.  A text is a string; the count of guests is a number.  A call *)
(* in flight is a record of the FormData it carries and of whether the     *)
(* component that made it is still mounted.                                *)
(***************************************************************************)
Rsvp ==
    [name |-> name, contact |-> contact, isAttending |-> isAttending,
     guests |-> guests, message |-> message,
     submissionStatus |-> submissionStatus, inFlight |-> inFlight,
     uncaught |-> uncaught]

\* a plausible slip: the options take the keys of the array as they are
GuestOptionsFromZero == 0 .. 9

\* the options of the select (lines 1422-1426): 1 to 10
GuestOptions == 1 .. 10

\* the FormData built by handleSubmit (lines 1315-1322)
FormDataOf(R) ==
    [name |-> R.name, contact |-> R.contact,
     attending |-> IF R.isAttending THEN "Yes" ELSE "No",
     guests |-> NumToString(R.guests), message |-> R.message]

\* a plausible slip: the button is never disabled
CanSubmitAlways(R) ==
    /\ R.name # ""
    /\ R.contact # ""

\* the form can be submitted: the fields marked required are filled in
\* (lines 1362 and 1375) and the button is not disabled (line 1447)
CanSubmit(R) ==
    /\ R.name # ""
    /\ R.contact # ""
    /\ R.submissionStatus # "submitting"

\* handleSubmit up to the await (lines 1311-1332)
HandleSubmit(R) ==
    [R EXCEPT !.submissionStatus = "submitting",
              !.inFlight = Append(@, [data |-> FormDataOf(R), live |-> TRUE])]

\* a plausible slip: after a success the status is put back with the fields
AfterAwaitIdle(R, ok) ==
    IF ok
    THEN [R EXCEPT !.submissionStatus = "idle",
                   !.name = "", !.contact = "", !.guests = 1,
                   !.isAttending = TRUE, !.message = ""]
    ELSE [R EXCEPT !.submissionStatus = "error"]

\* a plausible slip: the fields are cleared whatever the outcome
AfterAwaitClearAlways(R, ok) ==
    [R EXCEPT !.submissionStatus = IF ok THEN "success" ELSE "error",
              !.name = "", !.contact = "", !.guests = 1,
              !.isAttending = TRUE, !.message = ""]

\* a plausible slip: the count of guests is not put back
AfterAwaitKeepGuests(R, ok) ==
    IF ok
    THEN [R EXCEPT !.submissionStatus = "success",
                   !.name = "", !.contact = "",
                   !.isAttending = TRUE, !.message = ""]
    ELSE [R EXCEPT !.submissionStatus = "error"]

\* handleSubmit after the await (lines 1334-1343): fetch has resolved (ok) or
\* rejected; the rejection is caught
AfterAwait(R, ok) ==
    IF ok
    THEN [R EXCEPT !.submissionStatus = "success",
                   !.name = "", !.contact = "", !.guests = 1,
                   !.isAttending = TRUE, !.message = ""]
    ELSE [R EXCEPT !.submissionStatus = "error"]

\* the sequence s without its element k
RemoveAt(s, k) == SubSeq(s, 1, k - 1) \o SubSeq(s, k + 1, Len(s))

\* the call k of fetch settles and the handler that awaits it goes on; the
\* state setters of a component that is no longer mounted do nothing
SettleSubmit(R, k, ok) ==
    LET R2 == [R EXCEPT !.inFlight = RemoveAt(@, k)]
    IN  IF R.inFlight[k].live THEN AfterAwait(R2, ok) ELSE R2

\* mounting: the useState calls of lines 1302-1309
MountRsvp(R) ==
    [R EXCEPT !.name = "", !.contact = "", !.isAttending = TRUE, !.guests = 1,
              !.message = "", !.submissionStatus = "idle"]

\* unmounting: the state is gone, the calls of fetch go on
UnmountRsvp(R) ==
    [MountRsvp(R) EXCEPT
        !.inFlight = [k \in 1 .. Len(R.inFlight) |->
                         [R.inFlight[k] EXCEPT !.live = FALSE]]]

SetRsvp(R) ==
    /\ name' = R.name
    /\ contact' = R.contact
    /\ isAttending' = R.isAttending
    /\ guests' = R.guests
    /\ message' = R.message
    /\ submissionStatus' = R.submissionStatus
    /\ inFlight' = R.inFlight
    /\ uncaught' = R.uncaught

(***************************************************************************)
(* PrenupGallery (lines 550-610).  The state of the component and the      *)
(* style it writes on the body are handled as a record G.                  *)
(***************************************************************************)
Gallery == [selectedImage |-> selectedImage, bodyOverflow |-> bodyOverflow]

\* useState<string | null>(null): null
NoImage == 0
\* the images of the grid (line 554): prenup1.jpeg to prenup20.jpeg
ImageCount == 20

\* the effect of lines 563-565, run after a render in which selectedImage
\* has changed and after the first render; it returns no cleanup
LockEffect(G) ==
    [G EXCEPT !.bodyOverflow = IF G.selectedImage # NoImage THEN "hidden" ELSE ""]

\* openModal (line 559) and the render and effect that follow
OpenModalOf(G, img) == LockEffect([G EXCEPT !.selectedImage = img])

\* closeModal (line 560) and the render and effect that follow
CloseModalOf(G) == LockEffect([G EXCEPT !.selectedImage = NoImage])

\* mounting: useState(null), then the effect
MountGallery(G) == LockEffect([G EXCEPT !.selectedImage = NoImage])

\* unmounting: the state and the portal are gone, no cleanup touches the body
UnmountGallery(G) == [G EXCEPT !.selectedImage = NoImage]

SetGallery(G) ==
    /\ selectedImage' = G.selectedImage
    /\ bodyOverflow' = G.bodyOverflow

(***************************************************************************)
(* LocationSlider (lines 631-1045)                                         *)
(***************************************************************************)
\* sliderData.length (lines 639-650)
SlideCount == 2

\* a % n of JavaScript: the sign of the result is that of a
JsMod(a, n) == IF a >= 0 THEN a % n ELSE 0 - ((0 - a) % n)

\* a plausible slip: the left step without + sliderData.length
NavIndexNoWrap(a, direction) ==
    IF direction = "left"
    THEN JsMod(a - 1, SlideCount)
    ELSE JsMod(a + 1, SlideCount)

\* newIndex of handleNav (lines 673-681)
NavIndex(a, direction) ==
    IF direction = "left"
    THEN JsMod(a - 1 + SlideCount, SlideCount)
    ELSE JsMod(a + 1, SlideCount)

\* useState(0)
MountSlider == 0

(***************************************************************************)
(* The document                                                            *)
(***************************************************************************)
\* the id attributes of the elements rendered by HomePage and its sections
HomeElementIds ==
    {"prenup-gallery", "video", "location", "fullscreen-bg", "dresscode",
     "rsvp", "name", "contact", "guests", "message"}
\* the id attributes of the elements rendered by Navbar
NavbarElementIds == {"mobile-menu"}

\* a plausible slip: the element is taken to be there
ElementAlways(id) == TRUE

\* document.getElementById(id) finds an element
ElementExists(id) ==
    id \in NavbarElementIds \/ (HomeMounted /\ id \in HomeElementIds)

(***************************************************************************)
(* Initial states: App has rendered HomePage and every effect has run once *)
(***************************************************************************)
InitNav ==
    /\ currentPage = "home"
    /\ isOpen = FALSE
    /\ scrollTimers = <<>>
    /\ scrolledTo = "none"
    /\ mounts = 1

InitClock(distances) ==
    /\ now \in {weddingDate - d : d \in distances}
    /\ advances = 0
    /\ clockBack = FALSE

InitCountdown ==
    /\ timerActive = MountCountdown.timerActive
    /\ timeLeft = MountCountdown.timeLeft
    /\ lastDistance = MountCountdown.lastDistance

BlankTracker ==
    [isInView |-> FALSE, observer |-> 0, registered |-> {},
     reported |-> [o \in Observers |-> -1],
     entries |-> [o \in Observers |-> <<>>], liveObs |-> {},
     lateCallback |-> FALSE]

InitTracker(ratios) ==
    /\ isInView = MountTracker(BlankTracker).isInView
    /\ observer = MountTracker(BlankTracker).observer
    /\ registered = MountTracker(BlankTracker).registered
    /\ reported = MountTracker(BlankTracker).reported
    /\ entries = MountTracker(BlankTracker).entries
    /\ liveObs = MountTracker(BlankTracker).liveObs
    /\ lateCallback = MountTracker(BlankTracker).lateCallback
    /\ ratio \in ratios

\* the form as RsvpPage renders it first
InitRsvp ==
    /\ name = ""
    /\ contact = ""
    /\ isAttending = TRUE
    /\ guests = 1
    /\ message = ""
    /\ submissionStatus = "idle"
    /\ inFlight = <<>>
    /\ uncaught = FALSE

\* the gallery and the slider as HomePage mounts them; the body has no
\* inline overflow
InitSections ==
    /\ selectedImage = NoImage
    /\ bodyOverflow = ""
    /\ activeIndex = MountSlider

InitField(sizes, D) ==
    /\ \E s \in sizes : winW = s[1] /\ winH = s[2]
    /\ \E draws \in DrawsFor(winW, winH, D) :
          /\ fields = <<MountField(winW, winH, draws)>>
          /\ frameLog = AnimateLog(fields[1])
    /\ frames = 0
    /\ lastOp = "mount"

(***************************************************************************)
(* Mounting and unmounting HomePage (renderPage, lines 51-56): every       *)
(* section's effects run, or their cleanups                                *)
(***************************************************************************)
MountHome(D) ==
    /\ mounts < MaxMounts
    /\ CanRunEffect(Tracker)
    /\ mounts' = mounts + 1
    /\ SetCountdown(MountCountdown)
    /\ SetTracker(MountTracker(Tracker))
    /\ clockBack' = FALSE
    /\ \E draws \in DrawsFor(winW, winH, D) :
          /\ fields' = Append(fields, MountField(winW, winH, draws))
          /\ frameLog' = AnimateLog(fields'[Len(fields')])
    /\ lastOp' = "mount"
    /\ SetRsvp(MountRsvp(Rsvp))
    /\ SetGallery(MountGallery(Gallery))
    /\ activeIndex' = MountSlider
    /\ UNCHANGED <<now, advances, ratio, winW, winH, frames>>

UnmountHome ==
    /\ SetCountdown(UnmountCountdown)
    /\ SetTracker(UnmountTracker(Tracker))
    /\ fields' = [fields EXCEPT ![Len(fields)] = UnmountField(@)]
    /\ lastOp' = "unmount"
    /\ SetRsvp(UnmountRsvp(Rsvp))
    /\ SetGallery(UnmountGallery(Gallery))
    /\ activeIndex' = MountSlider
    /\ UNCHANGED <<mounts, clockVars, ratio, winW, winH, frames, frameLog>>

(***************************************************************************)
(* Navbar (lines 72-165)                                                   *)
(***************************************************************************)
\* a plausible slip: the page name of the link is capitalised, so that
\* renderPage keeps HomePage
ClickEntourageCaps ==
    /\ currentPage' = "Entourage"
    /\ UNCHANGED <<isOpen, scrollTimers, scrolledTo, mounts, clockVars,
                   countdownVars, trackerVars, ratio, particleVars, rsvpVars,
                   sectionVars>>

\* a pending setTimeout callback: the id it closed over, and a history field
\* (not in the source) recording that a later navigation has taken effect
\* since it was scheduled
NewTimer(id) == [id |-> id, overtaken |-> FALSE]

\* the history field of every pending callback, after a navigation
Overtake(timers) ==
    [k \in 1 .. Len(timers) |-> [timers[k] EXCEPT !.overtaken = TRUE]]

\* the Entourage links (lines 142 and 159): setCurrentPage('entourage')
ClickEntourage ==
    /\ currentPage' = "entourage"
    /\ IF HomeMounted
       THEN UnmountHome
       ELSE UNCHANGED <<mounts, clockVars, countdownVars, trackerVars, ratio,
                        particleVars, rsvpVars, sectionVars>>
    /\ scrollTimers' = Overtake(scrollTimers)
    /\ UNCHANGED <<isOpen, scrolledTo>>

\* a plausible slip: the scroll is not deferred when the page is switched, so
\* that the element is looked up before HomePage is rendered
HandleScrollToSectionAtOnce(id, D) ==
    /\ IF currentPage # "home"
       THEN /\ currentPage' = "home"
            /\ scrolledTo' = IF ElementExists(id) THEN id ELSE scrolledTo
            /\ MountHome(D)
            /\ scrollTimers' = Overtake(scrollTimers)
       ELSE /\ scrolledTo' = IF ElementExists(id) THEN id ELSE scrolledTo
            /\ scrollTimers' = Overtake(scrollTimers)
            /\ UNCHANGED <<currentPage, mounts, clockVars,
                           countdownVars, trackerVars, ratio, particleVars, rsvpVars,
                   sectionVars>>
    /\ isOpen' = FALSE

\* handleScrollToSection (lines 80-97)
HandleScrollToSection(id, D) ==
    /\ IF currentPage # "home"
       THEN /\ Len(scrollTimers) < MaxTimers
            /\ currentPage' = "home"
            /\ scrollTimers' = Append(Overtake(scrollTimers), NewTimer(id))
            /\ MountHome(D)
            /\ UNCHANGED scrolledTo
       ELSE /\ scrolledTo' = IF ElementExists(id) THEN id ELSE scrolledTo
            /\ scrollTimers' = Overtake(scrollTimers)
            /\ UNCHANGED <<currentPage, mounts, clockVars,
                           countdownVars, trackerVars, ratio, particleVars, rsvpVars,
                   sectionVars>>
    /\ isOpen' = FALSE

\* the callback of setTimeout (lines 84-89), 100 ms after the click
DeferredScroll ==
    /\ scrollTimers # <<>>
    /\ scrolledTo' = IF ElementExists(Head(scrollTimers).id)
                     THEN Head(scrollTimers).id ELSE scrolledTo
    /\ scrollTimers' = Tail(scrollTimers)
    /\ UNCHANGED <<currentPage, isOpen, mounts, clockVars, countdownVars,
                   trackerVars, ratio, particleVars, rsvpVars, sectionVars>>

\* toggleMenu (lines 75-77)
ToggleMenu ==
    /\ isOpen' = ~isOpen
    /\ UNCHANGED <<currentPage, scrollTimers, scrolledTo, mounts, clockVars,
                   countdownVars, trackerVars, ratio, particleVars, rsvpVars,
                   sectionVars>>

(***************************************************************************)
(* The clock and the countdown                                             *)
(***************************************************************************)
\* time passes, or the clock is adjusted
AdvanceClock(d) ==
    /\ advances < MaxAdvances
    /\ now' = now + d
    /\ advances' = advances + 1
    /\ clockBack' = (clockBack \/ d < 0)
    /\ UNCHANGED <<navVars, countdownVars, trackerVars, ratio, particleVars, rsvpVars,
                   sectionVars>>

\* the interval fires (lines 492-513); setTimeLeft is given a new object, so
\* CountdownSection renders again and the effect of its tracker runs again
TimerTick ==
    /\ timerActive
    /\ CanRunEffect(Tracker)
    /\ SetCountdown(TickHandler(Countdown, now))
    /\ SetTracker(Retire(RunEffect(Tracker)))
    /\ UNCHANGED <<navVars, clockVars, ratio, particleVars, rsvpVars, sectionVars>>

(***************************************************************************)
(* The intersection observers of the countdown section                     *)
(***************************************************************************)
\* the page is scrolled: the visible fraction of the section changes
Scroll(r) ==
    /\ HomeMounted
    /\ r # ratio
    /\ ratio' = r
    /\ UNCHANGED <<navVars, clockVars, countdownVars, trackerVars, particleVars, rsvpVars,
                   sectionVars>>

\* the platform queues an entry for an observer whose target changed class
\* since the last entry (the first entry follows observe())
PlatformNotify(o) ==
    /\ o \in registered
    /\ ClassOf(ratio, CountdownThreshold) # reported[o]
    /\ Len(entries[o]) < MaxEntries
    /\ \E b \in IsIntersectingOf(ratio, CountdownThreshold) :
          entries' = [entries EXCEPT ![o] =
                         Append(@, [isIntersecting |-> b, intersectionRatio |-> ratio])]
    /\ reported' = [reported EXCEPT ![o] = ClassOf(ratio, CountdownThreshold)]
    /\ UNCHANGED <<navVars, clockVars, countdownVars, isInView, observer,
                   registered, liveObs, lateCallback, ratio, particleVars, rsvpVars,
                   sectionVars>>

\* the platform calls the callback of observer o with its queued entries
Deliver(o) ==
    /\ entries[o] # <<>>
    /\ CallbackOf(Tracker, o).isInView # isInView => CanRunEffect(CallbackOf(Tracker, o))
    /\ SetTracker(DeliverTo(Tracker, o))
    /\ UNCHANGED <<navVars, clockVars, countdownVars, ratio, particleVars, rsvpVars,
                   sectionVars>>

(***************************************************************************)
(* The canvas                                                              *)
(***************************************************************************)
\* the window is resized: every registered listener runs handleResize
Resize(w, h, D) ==
    /\ <<w, h>> # <<winW, winH>>
    /\ winW' = w
    /\ winH' = h
    /\ \E draws \in DrawsFor(w, h, D) :
          fields' = [i \in 1 .. Len(fields) |->
                        IF fields[i].listening
                        THEN HandleResize(fields[i], w, h, draws)
                        ELSE fields[i]]
    /\ lastOp' = "resize"
    /\ UNCHANGED <<navVars, clockVars, countdownVars, trackerVars, ratio,
                   frames, frameLog, rsvpVars, sectionVars>>

\* the frame callback requested by run i of the effect is called
Frame(i) ==
    /\ i \in 1 .. Len(fields)
    /\ fields[i].raf
    /\ frames < MaxFrames
    /\ fields' = [fields EXCEPT ![i] = Animate(@)]
    /\ frameLog' = AnimateLog(fields[i])
    /\ frames' = frames + 1
    /\ lastOp' = "frame"
    /\ UNCHANGED <<navVars, clockVars, countdownVars, trackerVars, ratio,
                   winW, winH, rsvpVars, sectionVars>>

(***************************************************************************)
(* The form of RsvpPage                                                    *)
(***************************************************************************)
\* the user edits a field (the onChange handlers of lines 1361-1439); the
\* select of the guests is rendered only while isAttending (line 1410)
SetName(v) ==
    /\ HomeMounted
    /\ name' = v
    /\ UNCHANGED <<navVars, clockVars, countdownVars, trackerVars, ratio,
                   particleVars, contact, isAttending, guests, message,
                   submissionStatus, inFlight, uncaught, sectionVars>>

SetContact(v) ==
    /\ HomeMounted
    /\ contact' = v
    /\ UNCHANGED <<navVars, clockVars, countdownVars, trackerVars, ratio,
                   particleVars, name, isAttending, guests, message,
                   submissionStatus, inFlight, uncaught, sectionVars>>

SetIsAttending(b) ==
    /\ HomeMounted
    /\ isAttending' = b
    /\ UNCHANGED <<navVars, clockVars, countdownVars, trackerVars, ratio,
                   particleVars, name, contact, guests, message,
                   submissionStatus, inFlight, uncaught, sectionVars>>

SetGuests(n) ==
    /\ HomeMounted
    /\ isAttending
    /\ n \in GuestOptions
    /\ guests' = n
    /\ UNCHANGED <<navVars, clockVars, countdownVars, trackerVars, ratio,
                   particleVars, name, contact, isAttending, message,
                   submissionStatus, inFlight, uncaught, sectionVars>>

SetMessage(v) ==
    /\ HomeMounted
    /\ message' = v
    /\ UNCHANGED <<navVars, clockVars, countdownVars, trackerVars, ratio,
                   particleVars, name, contact, isAttending, guests,
                   submissionStatus, inFlight, uncaught, sectionVars>>

\* the form is submitted (line 1353)
Submit ==
    /\ HomeMounted
    /\ CanSubmit(Rsvp)
    /\ Len(inFlight) < MaxRequests
    /\ SetRsvp(HandleSubmit(Rsvp))
    /\ UNCHANGED <<navVars, clockVars, countdownVars, trackerVars, ratio,
                   particleVars, sectionVars>>

\* the call k of fetch resolves (ok) or rejects
Settle(k, ok) ==
    /\ k \in 1 .. Len(inFlight)
    /\ SetRsvp(SettleSubmit(Rsvp, k, ok))
    /\ UNCHANGED <<navVars, clockVars, countdownVars, trackerVars, ratio,
                   particleVars, sectionVars>>

(***************************************************************************)
(* The gallery and the slider                                              *)
(***************************************************************************)
\* a click on an image of the grid (line 577)
OpenModal(img) ==
    /\ HomeMounted
    /\ img \in 1 .. ImageCount
    /\ SetGallery(OpenModalOf(Gallery, img))
    /\ UNCHANGED <<navVars, clockVars, countdownVars, trackerVars, ratio,
                   particleVars, rsvpVars, activeIndex>>

\* a click on the overlay or on the close button of the lightbox, which are
\* rendered while an image is selected (lines 590-596)
CloseModal ==
    /\ HomeMounted
    /\ selectedImage # NoImage
    /\ SetGallery(CloseModalOf(Gallery))
    /\ UNCHANGED <<navVars, clockVars, countdownVars, trackerVars, ratio,
                   particleVars, rsvpVars, activeIndex>>

\* a click on an arrow of the slider (lines 1020 and 1037): handleNav
HandleNav(direction) ==
    /\ HomeMounted
    /\ activeIndex' = NavIndex(activeIndex, direction)
    /\ UNCHANGED <<navVars, clockVars, countdownVars, trackerVars, ratio,
                   particleVars, rsvpVars, selectedImage, bodyOverflow>>

\* a click on the card of index i (line 1029): setActiveIndex(index)
ClickCard(i) ==
    /\ HomeMounted
    /\ i \in 0 .. SlideCount - 1
    /\ activeIndex' = i
    /\ UNCHANGED <<navVars, clockVars, countdownVars, trackerVars, ratio,
                   particleVars, rsvpVars, selectedImage, bodyOverflow>>

(***************************************************************************)
(* Spec: the visibility tracker of the countdown section under scrolling,  *)
(* observer deliveries, ticks and view switches, in a window without area  *)
(* (no particle is made)                                                   *)
(***************************************************************************)
CountdownNavIds == {"rsvp"}
\* the distance at load; the clock is not moved in this specification
TrackerDistances == {90062000}

Init ==
    /\ InitNav
    /\ InitClock(TrackerDistances)
    /\ InitCountdown
    /\ InitTracker(Ratios)
    /\ InitField({<<0, 0>>}, Draws)
    /\ InitRsvp
    /\ InitSections

Next ==
    \/ ClickEntourage
    \/ \E id \in CountdownNavIds : HandleScrollToSection(id, Draws)
    \/ DeferredScroll
    \/ TimerTick
    \/ \E r \in Ratios : Scroll(r)
    \/ \E o \in Observers : PlatformNotify(o)
    \/ \E o \in Observers : Deliver(o)

Spec == Init /\ [][Next]_vars

(***************************************************************************)
(* SpecCountdown: the countdown under clock movements, ticks and view      *)
(* switches; the page is not scrolled and no observer entry is delivered   *)
(***************************************************************************)
InitCountdownSpec ==
    /\ InitNav
    /\ InitClock(StartDistances)
    /\ InitCountdown
    /\ InitTracker({0})
    /\ InitField({<<0, 0>>}, Draws)
    /\ InitRsvp
    /\ InitSections

NextCountdown ==
    \/ ClickEntourage
    \/ \E id \in CountdownNavIds : HandleScrollToSection(id, Draws)
    \/ DeferredScroll
    \/ \E d \in ClockSteps : AdvanceClock(d)
    \/ TimerTick

SpecCountdown == InitCountdownSpec /\ [][NextCountdown]_vars

(***************************************************************************)
(* SpecParticles: one mounted particle canvas under resizes and frames;    *)
(* the clock stands still, the page is not scrolled, the view stays home   *)
(***************************************************************************)
InitParticlesSpec ==
    /\ InitNav
    /\ InitClock({90062000})
    /\ InitCountdown
    /\ InitTracker({0})
    /\ InitField(WinSizes, Draws)
    /\ InitRsvp
    /\ InitSections

NextParticles ==
    \/ \E s \in WinSizes : Resize(s[1], s[2], Draws)
    \/ Frame(1)

SpecParticles == InitParticlesSpec /\ [][NextParticles]_vars

(***************************************************************************)
(* SpecViews: the particle canvas under view switches, resizes and frames, *)
(* in windows of at most one particle; the deferred scrolls stay pending   *)
(***************************************************************************)
ViewSizes == {<<0, 0>>, <<1, 1>>}
\* the draws of this specification: a particle made at the origin moving up
\* and left, or made near the far corner moving down and right
ViewDraws ==
    {[x |-> 0, y |-> 0, size |-> 1, sx |-> 0, sy |-> 0],
     [x |-> 3, y |-> 3, size |-> 1, sx |-> 3, sy |-> 3]}

InitViews ==
    /\ InitNav
    /\ InitClock({90062000})
    /\ InitCountdown
    /\ InitTracker({0})
    /\ InitField(ViewSizes, ViewDraws)
    /\ InitRsvp
    /\ InitSections

NextViews ==
    \/ ClickEntourage
    \/ \E id \in CountdownNavIds : HandleScrollToSection(id, ViewDraws)
    \/ \E s \in ViewSizes : Resize(s[1], s[2], ViewDraws)
    \/ \E i \in 1 .. MaxMounts : Frame(i)

SpecViews == InitViews /\ [][NextViews]_vars

(***************************************************************************)
(* SpecUpdate: Particle.update applied, frame after frame, to one particle *)
(* placed anywhere on or near a canvas of one pixel, with any speed        *)
(***************************************************************************)
\* how far outside the canvas the particle may be placed, in quarter pixels
MaxOutside == 3
UpdateSizes == {1, 2}
UpdateSpeeds == {3 * k - 6 : k \in 0 .. 3}

InitUpdate ==
    /\ InitNav
    /\ InitClock({90062000})
    /\ InitCountdown
    /\ InitTracker({0})
    /\ winW \in UpdateSizes
    /\ winH = 1
    /\ \E x \in (0 - MaxOutside) .. (4 * winW + MaxOutside),
          y \in (0 - MaxOutside) .. (4 * winH + MaxOutside),
          sx \in UpdateSpeeds, sy \in UpdateSpeeds :
          fields = <<[w |-> winW, h |-> winH,
                      particles |-> <<[x |-> x, y |-> y, size |-> 9,
                                      speedX |-> sx, speedY |-> sy,
                                      born |-> <<winW, winH>>]>>,
                      listening |-> TRUE, raf |-> TRUE]>>
    /\ frameLog = AnimateLog(fields[1])
    /\ frames = 0
    /\ lastOp = "mount"
    /\ InitRsvp
    /\ InitSections

NextUpdate == Frame(1)

SpecUpdate == InitUpdate /\ [][NextUpdate]_vars

(***************************************************************************)
(* SpecRouter: the router under every link of the menu, the menu button,   *)
(* the deferred scrolls, the ticks and the frames, with the countdown      *)
(* section in full view and a window without area                          *)
(***************************************************************************)
InitRouter ==
    /\ InitNav
    /\ InitClock({90062000})
    /\ InitCountdown
    /\ InitTracker({10})
    /\ InitField({<<0, 0>>}, ViewDraws)
    /\ InitRsvp
    /\ InitSections

NextRouter ==
    \/ ToggleMenu
    \/ ClickEntourage
    \/ \E id \in AnchorIds : HandleScrollToSection(id, ViewDraws)
    \/ DeferredScroll
    \/ TimerTick
    \/ \E i \in 1 .. MaxMounts : Frame(i)

SpecRouter == InitRouter /\ [][NextRouter]_vars

(***************************************************************************)
(* SpecJourney: the user uses the menu freely, then clicks Entourage and   *)
(* RSVP, which mounts HomePage for the last time, and then does nothing    *)
(* more.  A callback given to setTimeout is called in the end.             *)
(***************************************************************************)
\* the user is still using the menu
Browsing == mounts < MaxMounts

\* the anchor links the user clicks: the last click that leaves the entourage
\* view is a click on RSVP
JourneyClick(id) ==
    /\ Browsing
    /\ (currentPage # "home" /\ mounts + 1 = MaxMounts) => id = "rsvp"
    /\ HandleScrollToSection(id, ViewDraws)

NextJourney ==
    \/ Browsing /\ ToggleMenu
    \/ Browsing /\ ClickEntourage
    \/ \E id \in AnchorIds : JourneyClick(id)
    \/ DeferredScroll
    \/ TimerTick
    \/ \E i \in 1 .. MaxMounts : Frame(i)

SpecJourney ==
    InitRouter /\ [][NextJourney]_vars /\ WF_vars(DeferredScroll)

(***************************************************************************)
(* SpecRsvp: the form of RsvpPage under edits, submissions and the         *)
(* settling of the calls of fetch; the view stays home                     *)
(***************************************************************************)
\* what the user types into the text fields
Names == {"", "Ana"}
Contacts == {"", "0917"}
Messages == {"", "See you"}

InitRsvpSpec ==
    /\ InitNav
    /\ InitClock({90062000})
    /\ InitCountdown
    /\ InitTracker({0})
    /\ InitField({<<0, 0>>}, ViewDraws)
    /\ InitRsvp
    /\ InitSections

NextRsvp ==
    \/ \E v \in Names : SetName(v)
    \/ \E v \in Contacts : SetContact(v)
    \/ \E b \in BOOLEAN : SetIsAttending(b)
    \/ \E n \in GuestOptions : SetGuests(n)
    \/ \E v \in Messages : SetMessage(v)
    \/ Submit
    \/ \E k \in 1 .. MaxRequests, ok \in BOOLEAN : Settle(k, ok)

SpecRsvp == InitRsvpSpec /\ [][NextRsvp]_vars

(***************************************************************************)
(* SpecCallbacks: the router among everything that runs without a click on *)
(* the menu: the deferred scrolls, the ticks, the observer callbacks, the  *)
(* frames, and a form that is filled in, submitted and answered.  The user *)
(* leaves the form alone until HomePage is mounted for the last time.      *)
(***************************************************************************)
\* HomePage will not be mounted again
LastVisit == mounts = MaxMounts

NextCallbacks ==
    \/ ClickEntourage
    \/ \E id \in CountdownNavIds : HandleScrollToSection(id, ViewDraws)
    \/ DeferredScroll
    \/ TimerTick
    \/ \E o \in Observers : PlatformNotify(o)
    \/ \E o \in Observers : Deliver(o)
    \/ \E i \in 1 .. MaxMounts : Frame(i)
    \/ LastVisit /\ SetName("Ana")
    \/ LastVisit /\ SetContact("0917")
    \/ LastVisit /\ Submit
    \/ \E k \in 1 .. MaxRequests, ok \in BOOLEAN : Settle(k, ok)

SpecCallbacks == InitRouter /\ [][NextCallbacks]_vars

(***************************************************************************)
(* SpecRsvpViews: the form filled in and submitted while the view is       *)
(* switched, so that calls of fetch outlive the form that made them        *)
(***************************************************************************)
NextRsvpViews ==
    \/ ClickEntourage
    \/ \E id \in CountdownNavIds : HandleScrollToSection(id, ViewDraws)
    \/ DeferredScroll
    \/ \E v \in Names : SetName(v)
    \/ \E v \in Contacts : SetContact(v)
    \/ Submit
    \/ \E k \in 1 .. MaxRequests, ok \in BOOLEAN : Settle(k, ok)

SpecRsvpViews == InitRouter /\ [][NextRsvpViews]_vars

(***************************************************************************)
(* SpecSections: the lightbox of the gallery and the slider of the venues  *)
(* used while the view is switched                                         *)
(***************************************************************************)
\* the images opened: the first and the last of the grid
ImageChoices == {1, ImageCount}

NextSections ==
    \/ ToggleMenu
    \/ ClickEntourage
    \/ \E id \in AnchorIds : HandleScrollToSection(id, ViewDraws)
    \/ DeferredScroll
    \/ \E img \in ImageChoices : OpenModal(img)
    \/ CloseModal
    \/ \E direction \in {"left", "right"} : HandleNav(direction)
    \/ \E i \in 0 .. SlideCount - 1 : ClickCard(i)

SpecSections == InitRouter /\ [][NextSections]_vars

(***************************************************************************)
(* Properties                                                              *)
(***************************************************************************)
\* a step inside one mount of HomePage
SameMount == mounts' = mounts /\ HomeMounted'

\* C1 (Spec): during one mount the visibility flag starts false, and no
\* observer callback, render or effect run ever takes it from true to false
C1_FlagMonotonic ==
    /\ ~isInView
    /\ [][/\ mounts' # mounts => ~isInView'
          /\ SameMount /\ isInView => isInView']_vars

\* the flag is set and callbacks have still been delivered afterwards
C1_Witness == isInView /\ lateCallback /\ ratio < CountdownThreshold

\* C2 (Spec), as claimed: once the flag is set the element is deregistered
\* and no observer callback is processed any more during the mount
C2_OneShot == isInView => (registered = {} /\ ~lateCallback)

\* the last tick of this mount ran after the wedding date
LastTickPast == lastDistance # <<>> /\ lastDistance[1] < 0

\* C3 (SpecCountdown): a tick with distance < 0 shows 00 00 00 00 and cancels
\* the timer; from then on, while the section stays mounted, no tick runs and
\* the display does not change, wherever the clock goes
C3_FrozenAtZero ==
    /\ [](LastTickPast => (timeLeft = ZeroTimeLeft /\ ~timerActive))
    /\ [][LastTickPast /\ SameMount =>
            (timeLeft' = timeLeft /\ lastDistance' = lastDistance)]_vars

\* the countdown has expired and the clock was then set back before the date
C3_Witness == LastTickPast /\ clockBack /\ now < weddingDate

\* the numbers shown by the display t
ShownDays(t) == ParseInt(t.days)
ShownHours(t) == ParseInt(t.hours)
ShownMinutes(t) == ParseInt(t.minutes)
ShownSeconds(t) == ParseInt(t.seconds)
ShownMs(t) ==
    ShownDays(t) * 86400000 + ShownHours(t) * 3600000
    + ShownMinutes(t) * 60000 + ShownSeconds(t) * 1000

\* C4 (SpecCountdown): after a tick with distance >= 0 the display shows the
\* chained quotients of distance by 86400000, 3600000, 60000 and 1000, with
\* hours <= 23, minutes <= 59, seconds <= 59, and the shown duration is at
\* most distance and more than distance - 1000; 90061000 shows 01 01 01 01
C4_Decomposition ==
    (lastDistance # <<>> /\ lastDistance[1] >= 0) =>
        LET d == lastDistance[1] IN
        /\ ShownDays(timeLeft) = d \div 86400000
        /\ ShownHours(timeLeft) = (d % 86400000) \div 3600000
        /\ ShownMinutes(timeLeft) = (d % 3600000) \div 60000
        /\ ShownSeconds(timeLeft) = (d % 60000) \div 1000
        /\ ShownHours(timeLeft) <= 23
        /\ ShownMinutes(timeLeft) <= 59
        /\ ShownSeconds(timeLeft) <= 59
        /\ ShownMs(timeLeft) <= d
        /\ ShownMs(timeLeft) > d - 1000
        /\ \A f \in {"days", "hours", "minutes", "seconds"} :
              Len(timeLeft[f]) >= 2
        /\ d = 90061000 =>
              timeLeft = [days |-> <<0, 1>>, hours |-> <<0, 1>>,
                          minutes |-> <<0, 1>>, seconds |-> <<0, 1>>]

\* a tick has run 1 day, 1 hour, 1 minute and 1 second before the date
C4_Witness == lastDistance = <<90061000>>

\* C5 (SpecCountdown), as claimed: while the clock is never set back, the
\* shown duration never grows during a mount, the initial display included
C5_NonIncreasing ==
    [][(SameMount /\ ~clockBack') => ShownMs(timeLeft') <= ShownMs(timeLeft)]_vars

\* C6 (SpecParticles), as claimed: the collection of every canvas holds
\* floor(width * height / 9000) particles
C6_FloorCount ==
    \A i \in 1 .. Len(fields) :
        Len(fields[i].particles) = (fields[i].w * fields[i].h) \div 9000

\* C6 (SpecParticles), amended: the mounted canvas has the size of the window
\* and its collection holds the least n with n * 9000 >= width * height
C6_CeilCount ==
    \A i \in 1 .. Len(fields) :
        LET n == Len(fields[i].particles)
            area == fields[i].w * fields[i].h
        IN  /\ area <= n * 9000
            /\ n > 0 => (n - 1) * 9000 < area
            /\ FieldMounted(i) => (fields[i].w = winW /\ fields[i].h = winH)

\* a resize to 9001 by 1 pixels has made two particles
C6_Witness ==
    /\ lastOp = "resize"
    /\ fields[1].w * fields[1].h = 9001
    /\ Len(fields[1].particles) = 2

\* C7 (SpecViews), as claimed: only the mounted ParticleBackground has a frame
\* callback requested
C7_LoopsReleased ==
    \A i \in 1 .. Len(fields) : fields[i].raf => FieldMounted(i)

\* C8 (SpecParticles), as claimed: in a frame every update comes before
\* every draw
C8_UpdatesBeforeDraws ==
    \A i, j \in 1 .. Len(frameLog) :
        (frameLog[i].op = "update" /\ frameLog[j].op = "draw") => i < j

\* C8 (SpecParticles), amended: a frame clears the canvas, then updates and
\* at once draws each particle in turn, then requests the next frame
C8_UpdateThenDrawEach ==
    lastOp \in {"mount", "frame"} =>
        LET n == Len(fields[1].particles) IN
        /\ Len(frameLog) = 2 * n + 2
        /\ frameLog[1].op = "clear"
        /\ \A k \in 1 .. n :
              /\ frameLog[2 * k] = [op |-> "update", p |-> k]
              /\ frameLog[2 * k + 1] = [op |-> "draw", p |-> k]
        /\ frameLog[2 * n + 2].op = "requestAnimationFrame"

\* a frame has run on two particles
C8_Witness == lastOp = "frame" /\ Len(fields[1].particles) = 2

\* C9 (SpecUpdate): an update adds the speed to the position and negates the
\* speed of an axis exactly when the new coordinate is beyond the extent or
\* below 0; the position is not clamped and the other axis is not touched
C9_Reflect ==
    [][\A i \in 1 .. Len(fields[1].particles) :
          LET p == fields[1].particles[i]
              q == fields'[1].particles[i]
              W == 4 * fields[1].w
              H == 4 * fields[1].h
          IN  /\ q.x = p.x + p.speedX
              /\ q.y = p.y + p.speedY
              /\ (q.x > W \/ q.x < 0) => q.speedX = 0 - p.speedX
              /\ (q.x >= 0 /\ q.x <= W) => q.speedX = p.speedX
              /\ (q.y > H \/ q.y < 0) => q.speedY = 0 - p.speedY
              /\ (q.y >= 0 /\ q.y <= H) => q.speedY = p.speedY
              /\ (p.x > W /\ p.speedX > 0) => (q.speedX < 0 /\ q.x > W)]_vars

\* one update has run on a particle placed beyond the width and moving right
C9_Witness ==
    /\ frames = 1
    /\ fields[1].particles[1].x > 4 * fields[1].w + MaxOutside
    /\ fields[1].particles[1].speedX < 0

\* C10 (SpecParticles): a coordinate that is outside [0, extent] was inside
\* one update earlier and is inside again after the next update, so it is
\* outside by no more than the magnitude of the speed of its axis
OutsideBy(c, extent) == IF c > extent THEN c - extent ELSE IF c < 0 THEN 0 - c ELSE 0
Magnitude(v) == IF v < 0 THEN 0 - v ELSE v

C10_SingleFrameExcursion ==
    \A i \in 1 .. Len(fields) : \A k \in 1 .. Len(fields[i].particles) :
        LET p == fields[i].particles[k]
            W == 4 * fields[i].w
            H == 4 * fields[i].h
        IN  /\ OutsideBy(p.x, W) > 0 =>
                 /\ OutsideBy(p.x + p.speedX, W) = 0
                 /\ OutsideBy(p.x, W) <= Magnitude(p.speedX)
            /\ OutsideBy(p.y, H) > 0 =>
                 /\ OutsideBy(p.y + p.speedY, H) = 0
                 /\ OutsideBy(p.y, H) <= Magnitude(p.speedY)

\* after two frames or more a particle is beyond the width
C10_Witness ==
    /\ lastOp = "frame"
    /\ frames >= 2
    /\ \E k \in 1 .. Len(fields[1].particles) :
          fields[1].particles[k].x > 4 * fields[1].w

\* a click on a link of the menu
AnchorClick == \E id \in AnchorIds : HandleScrollToSection(id, ViewDraws)
MenuNavigation == ClickEntourage \/ AnchorClick

\* C11 (SpecRouter), as claimed: after a click on any link of the menu, the
\* Entourage link included, the mobile menu is closed
C11_MenuClosedAfterNavigation ==
    [][MenuNavigation => ~isOpen']_vars

\* C13 (SpecRouter): a scroll is performed only on an element that is in the
\* document when the scroll runs, so only while HomePage is rendered and only
\* on an id of HomePage; a lookup that finds nothing leaves the scroll
\* position alone
C13_ScrollOnlyExisting ==
    /\ [](scrolledTo # "none" => scrolledTo \in HomeElementIds)
    /\ [][scrolledTo' # scrolledTo =>
            (HomeMounted /\ HomeMounted' /\ scrolledTo' \in HomeElementIds)]_vars
    /\ [][(DeferredScroll /\ ~HomeMounted) => scrolledTo' = scrolledTo]_vars

\* a deferred scroll has run after the view was switched back to entourage,
\* and nothing was scrolled
C13_Witness ==
    /\ currentPage = "entourage"
    /\ mounts = 2
    /\ scrollTimers = <<>>
    /\ scrolledTo = "none"

\* a step of a timer, an observer, the countdown, the animation or the form
CallbackStep ==
    \/ DeferredScroll
    \/ TimerTick
    \/ \E o \in Observers : PlatformNotify(o) \/ Deliver(o)
    \/ \E i \in 1 .. MaxMounts : Frame(i)
    \/ SetName("Ana") \/ SetContact("0917") \/ Submit
    \/ \E k \in 1 .. MaxRequests, ok \in BOOLEAN : Settle(k, ok)

\* a click on an anchor link in this specification
CallbackAnchorClick ==
    \E id \in CountdownNavIds : HandleScrollToSection(id, ViewDraws)

\* C14 (SpecCallbacks): the page is 'home' or 'entourage', 'home' at first;
\* it becomes 'entourage' only by the Entourage link and 'home' only by an
\* anchor link clicked while it is not 'home'; no callback of a timer, an
\* observer, the countdown, the animation or the form changes it
C14_ViewState ==
    /\ currentPage = "home"
    /\ [](currentPage \in {"home", "entourage"})
    /\ [][currentPage' # currentPage =>
            \/ currentPage' = "entourage" /\ ClickEntourage
            \/ /\ currentPage' = "home"
               /\ currentPage # "home"
               /\ CallbackAnchorClick]_vars
    /\ [][currentPage' # currentPage => ~CallbackStep]_vars

\* the view has gone to entourage and come back; the deferred scroll, a
\* tick, an observer callback, a frame and the answer to a submission have
\* run
C14_Witness ==
    /\ currentPage = "home"
    /\ mounts = 2
    /\ scrollTimers = <<>>
    /\ scrolledTo = "rsvp"
    /\ lastDistance # <<>>
    /\ isInView
    /\ frames > 0
    /\ submissionStatus = "success"


\* C12 (SpecJourney): a click on RSVP in the entourage view sets the page to
\* 'home' and scrolls nothing yet, the scroll being left to a timer; when the
\* user does nothing more, the page is 'home' and the rsvp section is the
\* element last scrolled into view from some moment on
C12_EntourageThenRsvp ==
    /\ [][(currentPage = "entourage"
           /\ HandleScrollToSection("rsvp", ViewDraws)) =>
            /\ currentPage' = "home"
            /\ scrolledTo' = scrolledTo
            /\ scrollTimers' = Append(Overtake(scrollTimers), NewTimer("rsvp"))]_vars
    /\ (~Browsing) ~> [](/\ currentPage = "home"
                         /\ scrolledTo = "rsvp"
                         /\ scrollTimers = <<>>)

\* the journey is over: HomePage was mounted again by the click on RSVP and
\* the deferred scroll has shown the rsvp section
C12_Witness ==
    /\ ~Browsing
    /\ currentPage = "home"
    /\ scrollTimers = <<>>
    /\ scrolledTo = "rsvp"

\* the fields of the form
FormFields == <<name, contact, isAttending, guests, message>>
\* the fields as RsvpPage renders them first
DefaultFields == <<"", "", TRUE, 1, "">>

\* C15 (SpecRsvp): when the call of fetch of the mounted form resolves, the
\* status becomes 'success' and name, contact and message become empty,
\* attending Yes and guests 1, whatever was sent and whatever the fields hold
C15_SuccessResets ==
    [][\A k \in 1 .. Len(inFlight) :
          (Settle(k, TRUE) /\ inFlight[k].live) =>
              /\ submissionStatus' = "success"
              /\ FormFields' = DefaultFields
              /\ inFlight' = RemoveAt(inFlight, k)]_vars

\* a submission has succeeded and the form is blank again
C15_Witness ==
    /\ submissionStatus = "success"
    /\ FormFields = DefaultFields
    /\ inFlight = <<>>

\* C16 (SpecRsvp): when the call of fetch of the mounted form rejects, the
\* status becomes 'error' and no field changes; if the fields still hold what
\* was sent, the form can be submitted again and would send the same data;
\* no exception leaves handleSubmit
C16_FailureKeepsFields ==
    /\ [][\A k \in 1 .. Len(inFlight) :
            (Settle(k, FALSE) /\ inFlight[k].live) =>
                /\ submissionStatus' = "error"
                /\ FormFields' = FormFields
                /\ FormDataOf(Rsvp) = inFlight[k].data =>
                      /\ CanSubmit(Rsvp)'
                      /\ FormDataOf(Rsvp)' = inFlight[k].data]_vars
    /\ [](~uncaught)

\* a submission has failed and the form still holds an answer that differs
\* from the defaults in every field
C16_Witness ==
    /\ submissionStatus = "error"
    /\ inFlight = <<>>
    /\ name # ""
    /\ contact # ""
    /\ ~isAttending
    /\ guests # 1
    /\ message # ""

\* C17 (Spec): while HomePage is not rendered no observer observes the
\* section and the flag is not set, even when the section was removed before
\* any intersecting entry was delivered; the flag is set only by an
\* intersecting entry of an observer made by the mounted hook, never by an
\* entry left over from before the unmount
C17_UnmountDeregisters ==
    /\ [](~HomeMounted => (registered = {} /\ liveObs = {} /\ ~isInView))
    /\ [][(isInView' /\ ~isInView) =>
            /\ HomeMounted /\ HomeMounted'
            /\ \E o \in liveObs : entries[o] # <<>> /\ Head(entries[o]).isIntersecting]_vars

\* the section has been removed while an intersecting entry was still queued
\* for its observer
C17_Witness ==
    /\ ~HomeMounted
    /\ \E o \in Observers : entries[o] # <<>> /\ Head(entries[o]).isIntersecting

\* C18 (SpecCountdown): while HomePage is not rendered no countdown timer is
\* scheduled, no tick runs and the countdown state is not set, whether the
\* date has passed or not; a tick runs only for the mounted countdown, whose
\* timer is the only one
C18_TimerCancelledOnUnmount ==
    /\ [](~HomeMounted => ~timerActive)
    /\ [][~HomeMounted =>
            (timeLeft' = timeLeft /\ lastDistance' = lastDistance)]_vars
    /\ [][(lastDistance' # lastDistance /\ lastDistance' # <<>>) =>
            (HomeMounted /\ HomeMounted' /\ timerActive)]_vars

\* the countdown was removed before the date and time has passed since
C18_Witness ==
    /\ ~HomeMounted
    /\ advances = MaxAdvances
    /\ now < weddingDate

\* C19 (SpecParticles): every particle of a canvas was made for the size the
\* canvas has, so that no frame moves a particle against a size it was not
\* made for; after a resize the collection is exactly what init makes for
\* the new size: as many particles as its loop runs, each as its constructor
\* leaves it, with no particle of the old collection
C19_ResizeRegenerates ==
    /\ [](\A i \in 1 .. Len(fields) : \A k \in 1 .. Len(fields[i].particles) :
            fields[i].particles[k].born = <<fields[i].w, fields[i].h>>)
    /\ [][lastOp' = "resize" =>
            /\ fields'[1].w = winW' /\ fields'[1].h = winH'
            /\ Len(fields'[1].particles) = LoopCount(0, winW' * winH')
            /\ \A k \in 1 .. Len(fields'[1].particles) :
                  \E d \in Draws :
                      fields'[1].particles[k] = NewParticle(winW', winH', d)]_vars

\* a canvas whose particles had been moved by frames has been resized to a
\* size that takes two particles
C19_Witness ==
    /\ lastOp = "resize"
    /\ frames >= 2
    /\ Len(fields[1].particles) = 2

\* a position on a canvas of w by h pixels
OnCanvas(p, w, h) ==
    /\ 0 <= p.x /\ p.x <= 4 * w
    /\ 0 <= p.y /\ p.y <= 4 * h

\* C20 (SpecParticles): every particle that the constructor makes for the
\* size of the window, whatever Math.random() returns, is placed within
\* [0, width] x [0, height]; so is every particle of the canvas right after
\* a resize
C20_InitialPositionOnCanvas ==
    /\ \A d \in Draws : OnCanvas(NewParticle(winW, winH, d), winW, winH)
    /\ lastOp = "resize" =>
          \A k \in 1 .. Len(fields[1].particles) :
              OnCanvas(fields[1].particles[k], fields[1].w, fields[1].h)

\* a resize has made a particle at three quarters of a width of 9001 pixels
C20_Witness ==
    /\ lastOp = "resize"
    /\ fields[1].w = 9001
    /\ \E k \in 1 .. Len(fields[1].particles) :
          fields[1].particles[k].x = 3 * fields[1].w

\* observer o is called back in this step with the entries queued for it
Delivered(o) == entries[o] # <<>> /\ entries'[o] = <<>>

\* C22 (Spec), as claimed: a callback of the current mount whose first entry
\* has a ratio at or above the threshold sets the flag, and a callback whose
\* first entry has a ratio below the threshold never sets it
C22_FlagOnlyAtThreshold ==
    [][\A o \in liveObs :
          Delivered(o) =>
            /\ Head(entries[o]).intersectionRatio >= CountdownThreshold
                  => isInView'
            /\ (Head(entries[o]).intersectionRatio < CountdownThreshold
                  /\ ~isInView) => ~isInView']_vars

\* C29 (Spec): at most one observer observes the tracked element, it is the
\* observer of the last effect run, none observes it while HomePage is not
\* mounted, and the observer of the previous run no longer observes it when
\* the effect has run again
C29_OneRegistration ==
    /\ [](/\ Cardinality(registered) <= 1
          /\ registered \subseteq {observer}
          /\ ~HomeMounted => registered = {})
    /\ [][observer' # observer => observer \notin registered']_vars

\* the effect has run again during the mount: the new observer observes the
\* element while an entry of an earlier observer is still queued
C29_Witness ==
    /\ HomeMounted
    /\ registered = {observer}
    /\ \E o \in liveObs : o # observer /\ entries[o] # <<>>

\* the oldest pending setTimeout callback runs in this step and scrolls
DeferredScrollPerformed ==
    /\ scrollTimers # <<>>
    /\ scrollTimers' = Tail(scrollTimers)
    /\ ElementExists(Head(scrollTimers).id)

\* C25 (SpecRouter), as claimed: a deferred scroll is never performed once a
\* later navigation (an anchor click or a click on Entourage) has taken
\* effect, so that the last scroll is that of the most recent request
C25_NoStaleDeferredScroll ==
    [][DeferredScrollPerformed => ~Head(scrollTimers).overtaken]_vars

\* C21 (SpecRouter), as claimed: while HomePage is mounted each of the five
\* anchors of the links is the id of an element of the document, and a click
\* on its link in the home view scrolls that element into view at once
C21_AnchorsFoundOnHome ==
    /\ [](HomeMounted => \A id \in AnchorIds : ElementExists(id))
    /\ [][\A id \in AnchorIds :
            (currentPage = "home" /\ HandleScrollToSection(id, ViewDraws))
               => scrolledTo' = id]_vars

\* C23 (SpecViews): a ParticleBackground listens to resize exactly while it
\* is mounted, so at most one listener is registered; an instance that was
\* unmounted never listens again, keeps its canvas size and the number of its
\* particles, and is left as it is by a resize of the window
C23_ResizeListenerRemoved ==
    /\ [](\A i \in 1 .. Len(fields) : fields[i].listening <=> FieldMounted(i))
    /\ [][\A i \in 1 .. Len(fields) :
            ~fields[i].listening =>
               /\ ~fields'[i].listening
               /\ fields'[i].w = fields[i].w
               /\ fields'[i].h = fields[i].h
               /\ Len(fields'[i].particles) = Len(fields[i].particles)
               /\ <<winW', winH'>> # <<winW, winH>> => fields'[i] = fields[i]]_vars

\* the window has just been resized and an unmounted instance has kept the
\* size it had
C23_Witness ==
    /\ lastOp = "resize"
    /\ \E i \in 1 .. Len(fields) :
          ~fields[i].listening /\ <<fields[i].w, fields[i].h>> # <<winW, winH>>

\* C24 (SpecRsvp): the count of guests of the form, and the count carried by
\* every call of fetch, is a whole number from 1 to 10
C24_GuestsInRange ==
    /\ guests \in 1 .. 10
    /\ \A k \in 1 .. Len(inFlight) :
          /\ inFlight[k].data.guests = NumToString(ParseInt(inFlight[k].data.guests))
          /\ ParseInt(inFlight[k].data.guests) \in 1 .. 10

\* a guest who declined after choosing ten guests has submitted: the call
\* carries the count that is no longer shown
C24_Witness ==
    /\ ~isAttending
    /\ \E k \in 1 .. Len(inFlight) :
          /\ inFlight[k].data.attending = "No"
          /\ inFlight[k].data.guests = <<1, 0>>

\* the calls of fetch made by the form that is mounted
LiveCalls == {k \in 1 .. Len(inFlight) : inFlight[k].live}

\* C26 (SpecRsvpViews): the mounted form has at most one call of fetch that
\* has not settled; the status is 'submitting' exactly while it has one, the
\* form cannot be submitted then, and no call is started
C26_OneSubmissionInFlight ==
    /\ [](/\ Cardinality(LiveCalls) <= 1
          /\ submissionStatus = "submitting" <=> LiveCalls # {}
          /\ submissionStatus = "submitting" => ~CanSubmit(Rsvp))
    /\ [][submissionStatus = "submitting" => Len(inFlight') <= Len(inFlight)]_vars

\* the form submits while a call made by an earlier mount of the form has
\* still not settled
C26_Witness ==
    /\ submissionStatus = "submitting"
    /\ \E k \in 1 .. Len(inFlight) : ~inFlight[k].live

\* the changes of status the claim allows
StatusTransitions ==
    {<<"idle", "submitting">>, <<"submitting", "success">>,
     <<"submitting", "error">>, <<"success", "submitting">>,
     <<"error", "submitting">>}

\* C27 (SpecRsvpViews): a form starts 'idle'; while it stays mounted its
\* status changes only along idle -> submitting -> success or error ->
\* submitting, and the settling of its call takes it out of 'submitting'
C27_StatusTransitions ==
    /\ submissionStatus = "idle"
    /\ [][/\ mounts' # mounts => submissionStatus' = "idle"
          /\ (SameMount /\ HomeMounted /\ submissionStatus' # submissionStatus)
                => <<submissionStatus, submissionStatus'>> \in StatusTransitions
          /\ (SameMount /\ HomeMounted /\ LiveCalls # {} /\ LiveCalls' = {})
                => submissionStatus' \in {"success", "error"}]_vars

\* the call made by the form of the last mount of HomePage has settled, no
\* call is left, and the form shows the outcome
C27_Witness ==
    /\ mounts = MaxMounts
    /\ submissionStatus \in {"success", "error"}
    /\ inFlight = <<>>

\* C28 (SpecSections), as claimed: the body is locked exactly while an image
\* is open in the lightbox
C28_LockedIffOpen == bodyOverflow = "hidden" <=> selectedImage # NoImage

\* C30 (SpecSections): the index of the slider is an index of sliderData; a
\* left step goes to the previous slide and from the first to the last, a
\* right step goes to the next slide and from the last to the first, and a
\* left step and a right step undo each other
C30_SliderIndex ==
    /\ [](/\ activeIndex \in 0 .. SlideCount - 1
          /\ NavIndex(NavIndex(activeIndex, "left"), "right") = activeIndex
          /\ NavIndex(NavIndex(activeIndex, "right"), "left") = activeIndex)
    /\ [][/\ HandleNav("left") =>
               activeIndex' = IF activeIndex = 0 THEN SlideCount - 1
                              ELSE activeIndex - 1
          /\ HandleNav("right") =>
               activeIndex' = IF activeIndex = SlideCount - 1 THEN 0
                              ELSE activeIndex + 1]_vars

\* the slider shows the last slide, from which a right step wraps, in a
\* HomePage that was mounted again
C30_Witness ==
    /\ HomeMounted
    /\ mounts = MaxMounts
    /\ activeIndex = SlideCount - 1

====
